---- MODULE Spec2Model ----
(***************************************************************************)
(* Capture encoder and replay decoder of bedrocktool.                       *)
(*                                                                         *)
(*   capture side  (src/subcommands/capture.go 28-115): producers call     *)
(*                 dumpPacket on one output stream under dumpLock.         *)
(*   replay side   (src/subcommands/capture.go 175-568): a container is    *)
(*                 opened by createReplayConnector, the decode loop reads  *)
(*                 frames with readPacket, runs the login sequence and     *)
(*                 hands post-login packets to ReadPacket callers.         *)
(*                                                                         *)
(* Streams are sequences of bytes (0..255).  TLC integers are 32 bit       *)
(* signed, so the two frame magics are kept as their four bytes and a      *)
(* length field is decoded through DecodeU32 below.                        *)
(***************************************************************************)
EXTENDS Integers, Sequences, FiniteSets, TLC

VARIABLES
    \* ---- capture side
    f,          \* bytes of the capture output stream (fio)
    dumpLock,   \* holder of dumpLock, NoOwner when free
    ppc,        \* per producer: position inside dumpPacket
    todo,       \* per producer: the (toServer, payload) calls it makes, in program order
    nsent,      \* per producer: number of dumpPacket calls started
    faulty,     \* number of writes to the stream that may still come out short
    rpos,       \* read-back cursor into the frame log
    got,        \* frames read back so far, in order
    rstate,     \* read-back: "wait" | "reading" | "end"
    rerr,       \* error of the last readPacket of the read-back
    reopened,   \* result of reopening the capture file with createReplayConnector
    \* ---- replay side
    container,  \* the file handed to createReplayConnector
    files,      \* files createReplayConnector opened that were not closed since
    conn,       \* "unopened" | "rejected" | "open"
    openErr,    \* error returned by createReplayConnector
    ver,        \* r.ver
    packetF,    \* bytes of packets.bin at the read position the loop has not consumed
    nread,      \* frames read from packets.bin
    lpc,        \* decode loop position
    pks,        \* messages of the current frame the for-range has still to visit
    gameStarted,\* local of loop()
    gameData,   \* r.gameData (its EntityRuntimeID; NoGameData before any StartGame)
    spawnCh,    \* r.spawn closed?
    closeCh,    \* number of times r.close was closed
    packetsCh,  \* number of times r.packets was closed
    once,       \* r.once: "fresh" | "running" | "done"
    fault,      \* runtime panic raised, "none" otherwise
    cpc,        \* per Close caller: position inside Close
    ccalls,     \* per consumer closer: Close calls returned
    rd,         \* consumer reader: "idle" | "pending"
    rdLast,     \* result of the last ReadPacket
    ndelivered, \* number of packets returned by ReadPacket
    due,        \* post-login messages decoded and not yet returned, oldest first
    sw,         \* spawn waiter: position, and the variant last called
    swLast,     \* result of the last finished spawn-wait
    hist,       \* what the loop has processed (for stating the claims)
    cc,         \* the last WritePacket / Authenticated / LocalAddr / RemoteAddr call
                \* and what it returned
    \* ---- resource packs
    pack,       \* content of the resource pack behind a Packb
    ra          \* the Packb.ReadAll call: position, buf, off, last reader error, result

capVars == <<f, dumpLock, ppc, todo, nsent, faulty, rpos, got, rstate, rerr, reopened>>
repVars == <<container, files, conn, openErr, ver, packetF, nread, lpc, pks,
             gameStarted, gameData, spawnCh, closeCh, packetsCh, once, fault,
             cpc, ccalls, rd, rdLast, ndelivered, due, sw, swLast, hist, cc>>
packVars == <<pack, ra>>
vars == <<capVars, repVars, packVars>>

----------------------------------------------------------------------------
(* Bounds of the model *)

\* longest payload a producer writes in the codec specification
MaxPayload == 2
\* longest sequence of frames written in the codec specification
MaxFrames == 2
\* frames each concurrent producer writes (M)
FramesPer == 2

\* bytes a payload is drawn from: the bytes of the two magics
PayloadBytes == {170, 187}
\* values time.Now().UnixMilli() takes
Times == {0, 258}
\* concurrent producers (N = 2)
Producers == {1, 2}
NoOwner == 0

----------------------------------------------------------------------------
(* Bytes *)

RECURSIVE SeqsUpTo(_, _)
SeqsUpTo(S, n) ==
    IF n = 0 THEN {<<>>}
    ELSE LET shorter == SeqsUpTo(S, n - 1)
         IN  shorter \cup {Append(s, x) : s \in {t \in shorter : Len(t) = n - 1}, x \in S}

\* binary.Write(f, binary.LittleEndian, uint32): four bytes, low byte first.
\* Model lengths stay below 2^31, where uint32(len(payload)) is exact.
U32LE(n) ==
    <<n % 256, (n \div 256) % 256, (n \div 65536) % 256, (n \div 16777216) % 256>>

\* the timestamp written as a 32-bit value
I64LEShort(n) == U32LE(n)

\* binary.Write(f, binary.LittleEndian, int64) of a non-negative value below 2^31
I64LE(n) == U32LE(n) \o <<0, 0, 0, 0>>

\* binary.Write(f, binary.LittleEndian, bool): one byte
BoolByte(b) == IF b THEN <<1>> ELSE <<0>>

\* a length no model stream can satisfy: stands for every uint32 of 2^16 and more
BigLen == 256 * 256

\* binary.Read of a little-endian uint32 (values of 2^16 and more read as BigLen)
DecodeU32(b) ==
    IF b[3] = 0 /\ b[4] = 0 THEN b[1] + 256 * b[2] ELSE BigLen

Zeros(n) == [i \in 1..n |-> 0]

\* the k bytes of s after the first pos
Take(s, pos, k) == SubSeq(s, pos + 1, pos + k)

Magic1 == <<170, 170, 170, 170>>
Magic2 == <<187, 187, 187, 187>>

----------------------------------------------------------------------------
(* Capture container header *)

replayMagic == <<66, 84, 67, 80>>

currentReplayVersion == 3

\* WriteReplayHeader: the magic, then replayHeader{Version} as a little-endian int32
WriteReplayHeader(s) == s \o replayMagic \o U32LE(currentReplayVersion)

HeaderLen == Len(WriteReplayHeader(<<>>))

\* the frames of a capture file: what follows the header
FrameLog(s) == SubSeq(s, HeaderLen + 1, Len(s))

----------------------------------------------------------------------------
(* Frame decoder: replayConnector.readPacket *)

NoErr == "none"

\* A binary.Read of k bytes at pos: io.ReadFull underneath, so a short stream is
\* consumed to its end and the destination keeps its zero value.
CanRead(s, pos, k) == Len(s) - pos >= k
AfterRead(s, pos, k) == IF CanRead(s, pos, k) THEN pos + k ELSE Len(s)

\* the value readPacket returns, with the cursor it leaves: isNil tells a nil
\* payload from an empty one (make([]byte, 0) is not nil)
ReadResult(isNil, payload, toServer, err, pos) ==
    [isNil |-> isNil, payload |-> payload, toServer |-> toServer, err |-> err, pos |-> pos]

\* a reader that takes any four bytes for the trailing magic
Magic2Any(m) == TRUE

\* magic2 != 0xBBBBBBBB is the error "wrong Magic2"
Magic2Ok(m) == m = Magic2

readPacketBody(s, p1, v) ==
    LET packetLength == IF CanRead(s, p1, 4) THEN DecodeU32(Take(s, p1, 4)) ELSE 0
        p2 == AfterRead(s, p1, 4)
        toServer == IF CanRead(s, p2, 1) THEN s[p2 + 1] # 0 ELSE FALSE
        p3 == AfterRead(s, p2, 1)
        p4 == IF v >= 2 THEN AfterRead(s, p3, 8) ELSE p3
        p5 == AfterRead(s, p4, packetLength)
        p6 == AfterRead(s, p5, 4)
        magic2 == IF CanRead(s, p5, 4) THEN Take(s, p5, 4) ELSE Zeros(4)
    IN  IF ~CanRead(s, p4, packetLength)
        THEN ReadResult(TRUE, <<>>, toServer,
                        IF Len(s) = p4 THEN "EOF" ELSE "unexpected EOF", p5)
        ELSE IF ~Magic2Ok(magic2)
        THEN ReadResult(TRUE, <<>>, toServer, "wrong Magic2", p6)
        ELSE ReadResult(FALSE, Take(s, p4, packetLength), toServer, NoErr, p6)

readPacket(s, pos, v) ==
    IF Len(s) = pos
    THEN ReadResult(TRUE, <<>>, FALSE, NoErr, pos)            \* io.EOF: "Reached End"
    ELSE IF ~CanRead(s, pos, 4)
    THEN ReadResult(TRUE, <<>>, FALSE, "unexpected EOF", Len(s))
    ELSE IF Take(s, pos, 4) # Magic1
    THEN ReadResult(TRUE, <<>>, FALSE, "wrong Magic", pos + 4)
    ELSE readPacketBody(s, pos + 4, v)

----------------------------------------------------------------------------
(* Capture encoder: dumpPacket, one action per write of the critical section *)

Frame(toServer, payload) == [toServer |-> toServer, payload |-> payload]

\* what one dumpPacket call appends to a sound stream at time t
EncodeFrame(fr, t) ==
    Magic1 \o U32LE(Len(fr.payload)) \o BoolByte(fr.toServer) \o I64LE(t)
           \o fr.payload \o Magic2

\* the call producer p is making
Cur(p) == todo[p][nsent[p]]

\* bytes a Write may report written when budget of the writes may still be
\* short: all of them on a sound stream
ShortWrites(budget, bytes) == IF budget > 0 THEN 0..Len(bytes) ELSE {Len(bytes)}

\* the budget left after a Write of bytes reported n
Spent(budget, n, bytes) == IF n < Len(bytes) THEN budget - 1 ELSE budget

WriteOutcomes(bytes) == ShortWrites(faulty, bytes)

\* a dumpPacket that gives up at a failed write
AfterWriteChecked(n, bytes, to) == IF n < Len(bytes) THEN "failed" ELSE to

\* the results of the writes are dropped (the payload write's error is only
\* logged): dumpPacket goes on to its next statement
AfterWrite(n, bytes, to) == to

\* dumpPacket without its mutex
CanLockUnguarded == TRUE

\* dumpLock.Lock() returns only while no one holds the mutex
CanLock == dumpLock = NoOwner

Step(p, from, to, bytes) ==
    /\ ppc[p] = from
    /\ \E n \in WriteOutcomes(bytes) :
           /\ f' = f \o SubSeq(bytes, 1, n)
           /\ faulty' = Spent(faulty, n, bytes)
           /\ ppc' = [ppc EXCEPT ![p] = AfterWrite(n, bytes, to)]
    /\ UNCHANGED <<dumpLock, todo, nsent, rpos, got, rstate, rerr, reopened>>
    /\ UNCHANGED <<repVars, packVars>>

\* PacketFunc calls dumpPacket; dumpLock.Lock()
DumpLock(p) ==
    /\ ppc[p] = "idle"
    /\ nsent[p] < Len(todo[p])
    /\ rstate = "wait"
    /\ CanLock
    /\ dumpLock' = p
    /\ nsent' = [nsent EXCEPT ![p] = @ + 1]
    /\ ppc' = [ppc EXCEPT ![p] = "magic"]
    /\ UNCHANGED <<f, todo, faulty, rpos, got, rstate, rerr, reopened>>
    /\ UNCHANGED <<repVars, packVars>>

DumpMagic(p) == Step(p, "magic", "size", Magic1)

DumpSize(p) == Step(p, "size", "dir", U32LE(Len(Cur(p).payload)))

DumpDir(p) == Step(p, "dir", "time", BoolByte(Cur(p).toServer))

DumpTime(p) == \E t \in Times : Step(p, "time", "payload", I64LE(t))

\* n, err := f.Write(payload), and if n < int(packetSize) the Write of
\* packetSize - n zero bytes, whose result is dropped
DumpPayload(p) ==
    /\ ppc[p] = "payload"
    /\ \E n \in WriteOutcomes(Cur(p).payload) :
         LET payload == Cur(p).payload
             left == Spent(faulty, n, payload)
             pad == Zeros(Len(payload) - n)
         IN  \E m \in ShortWrites(left, pad) :
                /\ f' = f \o SubSeq(payload, 1, n) \o SubSeq(pad, 1, m)
                /\ faulty' = Spent(left, m, pad)
                /\ ppc' = [ppc EXCEPT ![p] = AfterWrite(n, payload, "magic2")]
    /\ UNCHANGED <<dumpLock, todo, nsent, rpos, got, rstate, rerr, reopened>>
    /\ UNCHANGED <<repVars, packVars>>

DumpMagic2(p) == Step(p, "magic2", "unlock", Magic2)

\* the deferred dumpLock.Unlock()
DumpUnlock(p) ==
    /\ ppc[p] = "unlock"
    /\ dumpLock' = NoOwner
    /\ ppc' = [ppc EXCEPT ![p] = "idle"]
    /\ UNCHANGED <<f, todo, nsent, faulty, rpos, got, rstate, rerr, reopened>>
    /\ UNCHANGED <<repVars, packVars>>

ProducersDone == \A p \in Producers : ppc[p] = "idle" /\ nsent[p] = Len(todo[p])

\* one readPacket call on the finished frame log, as the decode loop issues them
ReadBack ==
    /\ ProducersDone
    /\ rstate \in {"wait", "reading"}
    /\ LET r == readPacket(FrameLog(f), rpos, currentReplayVersion)
       IN  /\ rpos' = r.pos
           /\ rerr' = r.err
           /\ IF r.isNil
              THEN rstate' = "end" /\ got' = got
              ELSE rstate' = "reading" /\ got' = Append(got, Frame(r.toServer, r.payload))
    /\ UNCHANGED <<f, dumpLock, ppc, todo, nsent, faulty, reopened>>

\* every frame successive readPacket calls return from pos on, up to the first nil payload
RECURSIVE ReadAll(_, _, _)
ReadAll(s, pos, v) ==
    LET r == readPacket(s, pos, v)
    IN  IF r.isNil THEN <<>>
        ELSE <<Frame(r.toServer, r.payload)>> \o ReadAll(s, r.pos, v)


----------------------------------------------------------------------------
(* Opening a container: createReplayConnector *)

\* A file on disk: absent, a flat byte stream (what CaptureCMD.Execute writes),
\* or a zip archive, given by the entries the replay asks for.
\* What the "packets.bin" entry of an archive is made of: the payload bytes of
\* its frames, how many frames it holds at most, and whether damaged frames
\* occur in it.
Log(bytes, frames, damaged) == [bytes |-> bytes, frames |-> frames, damaged |-> damaged]
NoLog == Log({}, 0, FALSE)
Missing == [kind |-> "missing", bytes |-> <<>>, hasVersion |-> FALSE, version |-> <<>>,
            hasPackets |-> FALSE, packsOk |-> FALSE, log |-> NoLog]
Flat(bytes) == [Missing EXCEPT !.kind = "flat", !.bytes = bytes]
Zip(hasVersion, version, hasPackets, packsOk) ==
    [kind |-> "zip", bytes |-> <<>>, hasVersion |-> hasVersion, version |-> version,
     hasPackets |-> hasPackets, packsOk |-> packsOk, log |-> NoLog]
WithLog(c, log) == [c EXCEPT !.log = log]

\* zip.NewReader looks for the end-of-central-directory record: its signature
\* "PK\x05\x06" with the 22 bytes of the record present
DirectoryEndSignature == <<80, 75, 5, 6>>
HasDirectoryEnd(bytes) ==
    \E i \in 0..Len(bytes) :
        /\ Len(bytes) - i >= 22
        /\ Take(bytes, i, 4) = DirectoryEndSignature

\* r.z, err = zip.NewReader(r.f, s.Size())
IsZipArchive(c) == c.kind = "zip" \/ (c.kind = "flat" /\ HasDirectoryEnd(c.bytes))

\* binary.Read(f, binary.LittleEndian, &r.ver): its error is dropped, r.ver stays 0
ReadVersion(entry) == IF Len(entry) >= 4 THEN DecodeU32(Take(entry, 0, 4)) ELSE 0

\* a gate that only turns older versions away
VersionAcceptedFrom(v) == v >= 3

\* if r.ver != 3 { return nil, errors.New("wrong version") }
VersionAccepted(v) == v = 3

OpenResult(err, v) == [err |-> err, ver |-> v]

\* the error createReplayConnector returns (NoErr: r is returned and go r.loop() ran)
createReplayConnector(c) ==
    IF c.kind = "missing" THEN OpenResult("open", 0)
    ELSE IF ~IsZipArchive(c) THEN OpenResult("zip: not a valid zip file", 0)
    ELSE IF ~(c.kind = "zip" /\ c.hasVersion) THEN OpenResult("open version", 0)
    ELSE IF ~VersionAccepted(ReadVersion(c.version))
    THEN OpenResult("wrong version", ReadVersion(c.version))
    ELSE IF ~c.packsOk THEN OpenResult("read packs", ReadVersion(c.version))
    ELSE IF ~c.hasPackets THEN OpenResult("open packets.bin", ReadVersion(c.version))
    ELSE OpenResult(NoErr, ReadVersion(c.version))

\* the files createReplayConnector holds open when it returns: r.f from
\* os.Open on, the "version" entry from r.z.Open("version") on, packets.bin
\* from r.z.Open("packets.bin") on; no return path closes any of them
OpenedFiles(c) ==
    LET err == createReplayConnector(c).err
    IN  CASE err = "open" -> {}
          [] err \in {"zip: not a valid zip file", "open version"} -> {"r.f"}
          [] err \in {"wrong version", "read packs", "open packets.bin"} ->
                 {"r.f", "version"}
          [] OTHER -> {"r.f", "version", "packets.bin"}

----------------------------------------------------------------------------
(* Protocol messages.  A payload byte stands for one encoded message; the wire
   layout of messages belongs to the protocol library. *)

Msg(kind, id) == [kind |-> kind, id |-> id]

KnownBytes == 1..8

\* the message a payload byte decodes to
MsgOf(b) ==
    CASE b = 1 -> Msg("StartGame", 7)
      [] b = 2 -> Msg("SetLocalPlayerAsInitialised", 7)
      [] b = 3 -> Msg("SetLocalPlayerAsInitialised", 0)
      [] b = 4 -> Msg("Other", 1)
      [] b = 5 -> Msg("Other", 2)
      [] b = 6 -> Msg("ResourcePackOk", 0)
      [] b = 7 -> Msg("ResourcePackErr", 0)
      [] b = 8 -> Msg("StartGame", 9)
      [] OTHER -> Msg("Undecodable", 0)

\* minecraft.ParseData(payload, r, src, dst): fails when no packet header can be read
ParseDataOk(payload) == Len(payload) > 0

\* pkData.Decode(r): fails when the packet body cannot be decoded
DecodeOk(payload) == \A i \in 1..Len(payload) : payload[i] \in KnownBytes

Decode(payload) == [i \in 1..Len(payload) |-> MsgOf(payload[i])]

\* payload bytes of the replayed logs: StartGame{7}, SetLocalPlayerAsInitialised{7},
\* SetLocalPlayerAsInitialised{0} and one other packet
ReplayBytes == {1, 2, 3, 4}

\* the direction a frame was captured with: the client sends SetLocalPlayerAsInitialised
DirOf(payload) == payload # <<>> /\ payload[1] \in {2, 3}

\* messages of one frame of a replayed log
MaxMsgs == 2
\* frames of a replayed log
MaxLogFrames == 3
\* Close calls the consumer makes
MaxCloses == 2
\* writes of a failing capture stream that come out short
MaxShortWrites == 2

\* the frames packets.bin may hold at the read position, as dumpPacket wrote them
FrameChunks(bytes) ==
    {EncodeFrame(Frame(DirOf(pl), pl), 0) : pl \in SeqsUpTo(bytes, MaxMsgs)}

\* a frame of one packet, and that frame with its leading magic damaged (a sound
\* frame behind it), cut inside its payload, and with its trailing magic damaged
\* (a sound frame behind it)
SoundChunk == EncodeFrame(Frame(FALSE, <<4>>), 0)
DamagedChunks ==
    {[SoundChunk EXCEPT ![1] = 1] \o SoundChunk,
     SubSeq(SoundChunk, 1, 17),
     [SoundChunk EXCEPT ![Len(SoundChunk)] = 1] \o SoundChunk}

\* what follows the read position of packets.bin: a frame, a damaged frame, or
\* the end of the file
NextBytes ==
    IF nread < container.log.frames
    THEN FrameChunks(container.log.bytes)
             \cup (IF container.log.damaged THEN DamagedChunks ELSE {})
             \cup {<<>>}
    ELSE {<<>>}

----------------------------------------------------------------------------
(* Replay connection: createReplayConnector, loop, Close, ReadPacket, DoSpawn* *)

CloseCallers == {"loop", "user"}
SpawnVariants == {"DoSpawn", "DoSpawnContext", "DoSpawnTimeout"}

Running == conn = "open" /\ fault = "none"

NoPacket == Msg("none", 0)

ReadOutcome(res, pk, afterClose) == [res |-> res, pk |-> pk, afterClose |-> afterClose]
SpawnOutcome(res, spawned, closed) == [res |-> res, spawned |-> spawned, closed |-> closed]

\* the consumer opens the container
Open ==
    /\ conn = "unopened"
    /\ LET r == createReplayConnector(container)
       IN  IF r.err = NoErr
           THEN /\ conn' = "open"
                /\ ver' = r.ver
                /\ lpc' = "read"                       \* go r.loop()
                /\ openErr' = NoErr
           ELSE /\ conn' = "rejected"                  \* return nil, err
                /\ openErr' = r.err
                /\ UNCHANGED <<ver, lpc>>
    /\ files' = OpenedFiles(container)
    /\ UNCHANGED <<container, cc, packetF, nread, pks, gameStarted, gameData,
                   spawnCh, closeCh, packetsCh, once, fault, cpc, ccalls, rd, rdLast,
                   ndelivered, due, sw, swLast, hist>>
    /\ UNCHANGED <<capVars, packVars>>

\* a loop that logs the error and goes on to the next frame
LoopRetry(why) ==
    /\ lpc' = "read"
    /\ hist' = [hist EXCEPT !.end = why]

\* loop(): the return statements run the deferred r.Close()
LoopReturn(why) ==
    /\ lpc' = "defer"
    /\ hist' = [hist EXCEPT !.end = why]

\* a loop that returns when a payload cannot be decoded
DecodeFailedReturn == LoopReturn("decode")

\* loop(): pks, err := pkData.Decode(r); if err != nil { logrus.Error(err); continue }
DecodeFailed ==
    /\ lpc' = "read"
    /\ hist' = [hist EXCEPT !.skipped = @ + 1]

\* loop(): r.readPacket(), minecraft.ParseData, pkData.Decode
LoopRead ==
    /\ Running
    /\ lpc = "read"
    /\ \E bytes \in NextBytes :
         LET r == readPacket(bytes, 0, ver)
         IN  /\ packetF' = SubSeq(bytes, r.pos + 1, Len(bytes))
             /\ nread' = IF r.isNil THEN nread ELSE nread + 1
             /\ IF r.isNil
                THEN /\ LoopReturn(IF r.err = NoErr THEN "eof" ELSE "read")
                     /\ UNCHANGED <<pks, due>>
                ELSE IF ~ParseDataOk(r.payload)
                THEN LoopReturn("parse") /\ UNCHANGED <<pks, due>>
                ELSE IF ~DecodeOk(r.payload)
                THEN DecodeFailed /\ UNCHANGED <<pks, due>>
                ELSE /\ pks' = Decode(r.payload)
                     /\ lpc' = "msg"
                     /\ hist' = hist
                     /\ due' = IF gameStarted THEN due \o Decode(r.payload) ELSE due
    /\ UNCHANGED <<container, files, cc, conn, openErr, ver, gameStarted, gameData, spawnCh,
                   closeCh, packetsCh, once, fault, cpc, ccalls, rd, rdLast, ndelivered,
                   sw, swLast>>
    /\ UNCHANGED <<capVars, packVars>>

\* the for-range over pks left after its first message
NextPcBreak == "read"

\* the loop position after the first message of pks
NextPc == IF Len(pks) > 1 THEN "msg" ELSE "read"

\* close(r.spawn) wakes a pending spawn-wait with success
WakeSpawn ==
    IF sw.pc = "pending"
    THEN /\ sw' = [sw EXCEPT !.pc = "idle"]
         /\ swLast' = SpawnOutcome("ok", TRUE, closeCh > 0)
    ELSE UNCHANGED <<sw, swLast>>

\* the entity runtime id check of handleLoginSequence accepts everything
IdMatchesAny(id, declared) == TRUE

\* pk.EntityRuntimeID != r.gameData.EntityRuntimeID is the mismatch
IdMatches(id, declared) == id = declared

\* handleLoginSequence(pk) as called from loop() while !gameStarted
\* a snapshot that is kept once it was set
SetGameDataOnce(old, data) == IF old = 0 THEN data ELSE old

\* SetGameData(data): r.gameData = data
SetGameData(old, data) == data

\* a loop that hands over every message it decodes
PastLoginAlways == TRUE

\* loop(): if !gameStarted { handleLoginSequence } else { r.packets <- pk }
PastLogin == gameStarted

\* a loop that logs the error of handleLoginSequence and goes on with the
\* next message
LoginErrorLogged == [pc |-> NextPc, pks |-> Tail(pks)]

\* loop(): if err != nil { logrus.Error(err); return } after
\* handleLoginSequence: the for-range is left where it stands
LoginErrorFatal == [pc |-> "defer", pks |-> pks]

\* loop(): gameStarted, err = r.handleLoginSequence(pk).  A resource-pack
\* message is handed to r.resourcePackHandler, whose error is returned.
LoopLogin ==
    /\ Running
    /\ lpc = "msg"
    /\ ~gameStarted
    /\ LET pk == Head(pks)
       IN  CASE pk.kind = "StartGame" ->
                  /\ gameData' = SetGameData(gameData, pk.id)
                  /\ hist' = [hist EXCEPT !.startGame = TRUE, !.lastStart = pk.id]
                  /\ lpc' = NextPc /\ pks' = Tail(pks)
                  /\ UNCHANGED <<gameStarted, spawnCh, sw, swLast, due>>
             [] pk.kind = "ResourcePackErr" ->
                  /\ lpc' = LoginErrorFatal.pc /\ pks' = LoginErrorFatal.pks
                  /\ hist' = [hist EXCEPT !.end = "login"]
                  /\ UNCHANGED <<gameData, gameStarted, spawnCh, sw, swLast, due>>
             [] pk.kind = "SetLocalPlayerAsInitialised" /\ ~IdMatches(pk.id, gameData) ->
                  /\ lpc' = LoginErrorFatal.pc /\ pks' = LoginErrorFatal.pks
                  /\ hist' = [hist EXCEPT !.end = "login", !.initSeen = TRUE,
                                          !.initId = pk.id, !.declId = gameData]
                  /\ UNCHANGED <<gameData, gameStarted, spawnCh, sw, swLast, due>>
             [] pk.kind = "SetLocalPlayerAsInitialised" /\ IdMatches(pk.id, gameData) ->
                  /\ spawnCh' = TRUE                                 \* close(r.spawn)
                  /\ gameStarted' = TRUE
                  /\ hist' = [hist EXCEPT !.spawns = @ + 1, !.initSeen = TRUE,
                                          !.initId = pk.id, !.declId = gameData]
                  /\ due' = Tail(pks)
                  /\ WakeSpawn
                  /\ lpc' = NextPc /\ pks' = Tail(pks)
                  /\ UNCHANGED gameData
             [] OTHER ->
                  /\ lpc' = NextPc /\ pks' = Tail(pks)
                  /\ UNCHANGED <<gameData, gameStarted, spawnCh, sw, swLast, hist, due>>
    /\ UNCHANGED <<container, files, cc, conn, openErr, ver, packetF, nread, closeCh,
                   packetsCh, once, fault, cpc, ccalls, rd, rdLast, ndelivered>>
    /\ UNCHANGED <<capVars, packVars>>

\* a ReadPacket caller receives pk from r.packets
Receive(pk, afterClose) ==
    /\ rdLast' = ReadOutcome("ok", pk, afterClose)
    /\ ndelivered' = ndelivered + 1
    /\ hist' = [hist EXCEPT !.inOrder = @ /\ due # <<>> /\ Head(due) = pk]
    /\ due' = IF due = <<>> THEN due ELSE Tail(due)

\* r.packets <- pk: panics on a closed channel, hands over to a pending
\* ReadPacket, blocks otherwise
LoopSend ==
    /\ Running
    /\ lpc = "msg"
    /\ PastLogin
    /\ IF packetsCh > 0
       THEN /\ fault' = "send on closed channel"
            /\ UNCHANGED <<lpc, pks, rd, rdLast, ndelivered, due, hist>>
       ELSE IF rd = "pending"
       THEN /\ Receive(Head(pks), FALSE)
            /\ rd' = "idle"
            /\ lpc' = NextPc /\ pks' = Tail(pks)
            /\ fault' = fault
       ELSE /\ lpc' = "send"
            /\ UNCHANGED <<fault, pks, rd, rdLast, ndelivered, due, hist>>
    /\ UNCHANGED <<container, files, cc, conn, openErr, ver, packetF, nread, gameStarted,
                   gameData, spawnCh, closeCh, packetsCh, once, cpc, ccalls, sw, swLast>>
    /\ UNCHANGED <<capVars, packVars>>

\* whether caller c is at a call of Close
WantsClose(c) ==
    IF c = "loop" THEN lpc = "defer" ELSE ccalls < MaxCloses

\* Close returns nil to caller c
Returned(c) ==
    IF c = "loop"
    THEN lpc' = "done" /\ ccalls' = ccalls
    ELSE ccalls' = ccalls + 1 /\ lpc' = lpc

\* Close without the Once
OnceIgnored == TRUE

\* r.once.Do lets a caller run the function only the first time
OnceFresh == once = "fresh"

\* Close(): r.once.Do(...) entered.  A caller that finds the Once done returns
\* at once; one that finds it running waits for it.
CloseEnter(c) ==
    /\ Running
    /\ cpc[c] = "idle"
    /\ WantsClose(c)
    /\ once # "running"
    /\ IF OnceFresh
       THEN /\ once' = "running"
            /\ cpc' = [cpc EXCEPT ![c] = "close"]
            /\ UNCHANGED <<lpc, ccalls>>
       ELSE /\ Returned(c)
            /\ UNCHANGED <<once, cpc>>
    /\ UNCHANGED <<container, files, cc, conn, openErr, ver, packetF, nread, pks,
                   gameStarted, gameData, spawnCh, closeCh, packetsCh, fault, rd, rdLast,
                   ndelivered, due, sw, swLast, hist>>
    /\ UNCHANGED <<capVars, packVars>>

\* a spawn-wait that waits for r.spawn alone
WaitsOnSpawnOnly == FALSE

\* DoSpawnContext: the select has the case <-r.close
WaitsOnClose == TRUE

\* close(r.close): wakes the pending ReadPacket and the pending spawn-wait
CloseCloseCh(c) ==
    /\ Running
    /\ cpc[c] = "close"
    /\ IF closeCh > 0
       THEN /\ fault' = "close of closed channel"
            /\ UNCHANGED <<closeCh, cpc, rd, rdLast, sw, swLast>>
       ELSE /\ closeCh' = closeCh + 1
            /\ cpc' = [cpc EXCEPT ![c] = "packets"]
            /\ fault' = fault
            /\ IF rd = "pending"
               THEN rd' = "idle" /\ rdLast' = ReadOutcome("closed", NoPacket, FALSE)
               ELSE UNCHANGED <<rd, rdLast>>
            /\ IF sw.pc = "pending" /\ WaitsOnClose
               THEN /\ sw' = [sw EXCEPT !.pc = "idle"]
                    /\ swLast' = SpawnOutcome("err", spawnCh, TRUE)
               ELSE UNCHANGED <<sw, swLast>>
    /\ UNCHANGED <<container, files, cc, conn, openErr, ver, packetF, nread, lpc, pks,
                   gameStarted, gameData, spawnCh, packetsCh, once, ccalls, ndelivered,
                   due, hist>>
    /\ UNCHANGED <<capVars, packVars>>

\* close(r.packets), the end of the once function and the return of Close.
\* A sender blocked on the channel panics.
ClosePacketsCh(c) ==
    /\ Running
    /\ cpc[c] = "packets"
    /\ IF packetsCh > 0
       THEN /\ fault' = "close of closed channel"
            /\ UNCHANGED <<packetsCh, cpc, once, lpc, ccalls>>
       ELSE /\ packetsCh' = packetsCh + 1
            /\ IF lpc = "send"
               THEN /\ fault' = "send on closed channel"
                    /\ UNCHANGED <<cpc, once, lpc, ccalls>>
               ELSE /\ fault' = fault
                    /\ once' = "done"
                    /\ cpc' = [cpc EXCEPT ![c] = "idle"]
                    /\ Returned(c)
    /\ UNCHANGED <<container, files, cc, conn, openErr, ver, packetF, nread, pks,
                   gameStarted, gameData, spawnCh, closeCh, rd, rdLast, ndelivered, due,
                   sw, swLast, hist>>
    /\ UNCHANGED <<capVars, packVars>>

\* ReadPacket(): the select takes any ready case, and blocks when none is
ReadPacket ==
    /\ Running
    /\ rd = "idle"
    /\ \/ /\ closeCh > 0                                   \* case <-r.close
          /\ rdLast' = ReadOutcome("closed", NoPacket, once = "done")
          /\ UNCHANGED <<rd, ndelivered, due, hist, lpc, pks>>
       \/ /\ packetsCh > 0                                 \* p, ok := <-r.packets, !ok
          /\ rdLast' = ReadOutcome("closed", NoPacket, once = "done")
          /\ UNCHANGED <<rd, ndelivered, due, hist, lpc, pks>>
       \/ /\ packetsCh = 0 /\ lpc = "send"                 \* a sender is waiting
          /\ Receive(Head(pks), once = "done")
          /\ lpc' = NextPc /\ pks' = Tail(pks)
          /\ rd' = rd
       \/ /\ closeCh = 0 /\ packetsCh = 0 /\ lpc # "send"  \* nothing ready
          /\ rd' = "pending"
          /\ UNCHANGED <<rdLast, ndelivered, due, hist, lpc, pks>>
    /\ UNCHANGED <<container, files, cc, conn, openErr, ver, packetF, nread, gameStarted,
                   gameData, spawnCh, closeCh, packetsCh, once, fault, cpc, ccalls, sw,
                   swLast>>
    /\ UNCHANGED <<capVars, packVars>>

\* every context ends
CtxCanExpireAlways(variant) == TRUE

\* DoSpawn waits on context.Background(), which is never done
CtxCanExpire(variant) == variant # "DoSpawn"

\* DoSpawn / DoSpawnContext / DoSpawnTimeout: the select of DoSpawnContext.
\* Of the cases that are ready when the select is reached one is chosen at
\* random; the context of a DoSpawnContext or DoSpawnTimeout may be done by then
\* (a cancelled context, a timeout of zero).
DoSpawn(variant) ==
    /\ Running
    /\ sw.pc = "idle"
    /\ \/ /\ closeCh > 0 /\ WaitsOnClose                   \* case <-r.close
          /\ swLast' = SpawnOutcome("err", spawnCh, TRUE)
          /\ sw' = [pc |-> "idle", variant |-> variant]
       \/ /\ CtxCanExpire(variant)                          \* case <-ctx.Done()
          /\ swLast' = SpawnOutcome("err", spawnCh, closeCh > 0)
          /\ sw' = [pc |-> "idle", variant |-> variant]
       \/ /\ spawnCh                                       \* case <-r.spawn
          /\ swLast' = SpawnOutcome("ok", TRUE, closeCh > 0)
          /\ sw' = [pc |-> "idle", variant |-> variant]
       \/ /\ ~(closeCh > 0 /\ WaitsOnClose) /\ ~spawnCh    \* nothing ready
          /\ sw' = [pc |-> "pending", variant |-> variant]
          /\ swLast' = swLast
    /\ UNCHANGED <<container, files, cc, conn, openErr, ver, packetF, nread, lpc, pks,
                   gameStarted, gameData, spawnCh, closeCh, packetsCh, once, fault, cpc,
                   ccalls, rd, rdLast, ndelivered, due, hist>>
    /\ UNCHANGED <<capVars, packVars>>

\* case <-ctx.Done(): the context of a pending DoSpawnContext / DoSpawnTimeout ends
SpawnCtxDone ==
    /\ Running
    /\ sw.pc = "pending"
    /\ CtxCanExpire(sw.variant)
    /\ sw' = [sw EXCEPT !.pc = "idle"]
    /\ swLast' = SpawnOutcome("err", spawnCh, closeCh > 0)
    /\ UNCHANGED <<container, files, cc, conn, openErr, ver, packetF, nread, lpc, pks,
                   gameStarted, gameData, spawnCh, closeCh, packetsCh, once, fault, cpc,
                   ccalls, rd, rdLast, ndelivered, due, hist>>
    /\ UNCHANGED <<capVars, packVars>>

\* a call of the connection contract and its result
Call(op, res) == [op |-> op, res |-> res]
NoCall == Call("none", "none")

\* a connection that refuses writes once it is closed
WritePacketClosed == IF closeCh > 0 THEN "use of closed network connection" ELSE NoErr

\* WritePacket(pk): return nil
WritePacketResult == NoErr

\* Authenticated(): return true
AuthenticatedResult == "true"

\* LocalAddr(): &net.UDPAddr{IP: net.IPv4(1, 1, 1, 1)}
LocalAddrResult == "1.1.1.1"

\* RemoteAddr(): &net.UDPAddr{IP: net.IPv4(2, 2, 2, 2)}
RemoteAddrResult == "2.2.2.2"

\* a contract call that only returns a value
Answer(op, res) ==
    /\ Running
    /\ cc' = Call(op, res)
    /\ UNCHANGED <<container, files, conn, openErr, ver, packetF, nread, lpc, pks,
                   gameStarted, gameData, spawnCh, closeCh, packetsCh, once, fault, cpc,
                   ccalls, rd, rdLast, ndelivered, due, sw, swLast, hist>>
    /\ UNCHANGED <<capVars, packVars>>

WritePacket == Answer("WritePacket", WritePacketResult)

Authenticated == Answer("Authenticated", AuthenticatedResult)

LocalAddr == Answer("LocalAddr", LocalAddrResult)

RemoteAddr == Answer("RemoteAddr", RemoteAddrResult)

\* GameData(): return r.gameData
GameData == Answer("GameData", gameData)

\* the entity runtime ids of the data a consumer passes to SetGameData
ConsumerIds == {7, 9}

\* the consumer calls SetGameData(data): r.gameData = data, whatever the loop
\* is doing (the loop's own write and read of r.gameData are not synchronised
\* with it: either order of the two accesses can be the one that happens)
SetGameDataCall(data) ==
    /\ Running
    /\ gameData' = SetGameData(gameData, data)
    /\ cc' = Call("SetGameData", data)
    /\ hist' = [hist EXCEPT !.userSet = TRUE]
    /\ UNCHANGED <<container, files, conn, openErr, ver, packetF, nread, lpc, pks,
                   gameStarted, spawnCh, closeCh, packetsCh, once, fault, cpc,
                   ccalls, rd, rdLast, ndelivered, due, sw, swLast>>
    /\ UNCHANGED <<capVars, packVars>>

\* userSet: the consumer called SetGameData;
\* skipped: frames whose payload could not be decoded;
\* startGame: a StartGame was handled, lastStart: the id of the last one; initSeen, initId, declId: the
\* SetLocalPlayerAsInitialised handled, its id and the id r.gameData held then;
\* spawns: times r.spawn was closed; end: why loop() returned; inOrder: every
\* packet a ReadPacket returned was the oldest one due
NoHist == [startGame |-> FALSE, lastStart |-> 0, initSeen |-> FALSE, initId |-> 0,
           declId |-> 0, spawns |-> 0, end |-> "none", inOrder |-> TRUE, skipped |-> 0,
           userSet |-> FALSE]

\* a replayConnector before createReplayConnector ran
RepStart ==
    /\ files = {}
    /\ cc = NoCall
    /\ conn = "unopened"
    /\ openErr = NoErr
    /\ ver = 0
    /\ packetF = <<>>
    /\ nread = 0
    /\ lpc = "off"
    /\ pks = <<>>
    /\ gameStarted = FALSE
    /\ gameData = 0
    /\ spawnCh = FALSE
    /\ closeCh = 0
    /\ packetsCh = 0
    /\ once = "fresh"
    /\ fault = "none"
    /\ cpc = [c \in CloseCallers |-> "idle"]
    /\ ccalls = 0
    /\ rd = "idle"
    /\ rdLast = ReadOutcome("none", NoPacket, FALSE)
    /\ ndelivered = 0
    /\ due = <<>>
    /\ sw = [pc |-> "idle", variant |-> "DoSpawn"]
    /\ swLast = SpawnOutcome("none", FALSE, FALSE)
    /\ hist = NoHist

\* the capture side at rest
CapIdle ==
    /\ f = <<>>
    /\ dumpLock = NoOwner
    /\ ppc = [p \in Producers |-> "idle"]
    /\ todo = [p \in Producers |-> <<>>]
    /\ nsent = [p \in Producers |-> 0]
    /\ faulty = 0
    /\ rpos = 0
    /\ got = <<>>
    /\ rstate = "end"
    /\ rerr = NoErr
    /\ reopened = [tried |-> TRUE, err |-> NoErr]

----------------------------------------------------------------------------
(* Resource packs: Packb.ReadAll *)

\* longest pack content
MaxPackLen == 3

\* bytes of a pack's content
PackBytes == {1, 2, 3}

\* a pack behind a Packb: its content and how its ReadAt behaves.  atEnd is
\* the error ReadAt returns for a request with nothing left to read, io.EOF or
\* nil: io.ReaderAt allows both when n = len(p) bytes are returned at the end
\* of the input, and len(p) is 0 there.  fails: whether a ReadAt may fail with
\* another error.
Pack(content, atEnd, fails) == [content |-> content, atEnd |-> atEnd, fails |-> fails]

NoPack == Pack(<<>>, "EOF", FALSE)

\* the ReadAll call: pc "idle" | "loop" | "done"; err is the error of the last
\* ReadAt; res "none" | "ok" (buf returned) | "err" (nil and the error
\* returned); turn is the parity of the turns of the for loop made
Call0 == [pc |-> "idle", buf |-> <<>>, off |-> 0, err |-> NoErr, res |-> "none",
          turn |-> 0]

PackIdle == pack = NoPack /\ ra = Call0

ReadAtResult(n, err) == [n |-> n, err |-> err]

\* What p.ReadAt(b, off) may return for a request of req = len(b) bytes at off,
\* the request ending where the content ends.  An empty request, which is a
\* request at the end of the content, is answered by (0, io.EOF) or by (0, nil),
\* as the reader does; otherwise at least one byte is read, fewer than
\* requested without an error, all of them with or without io.EOF; and a call of
\* a failing reader may end with another error after some of the bytes.
ReadAtOutcomes(p, req) ==
    (IF req = 0
     THEN {ReadAtResult(0, p.atEnd)}
     ELSE {ReadAtResult(n, NoErr) : n \in 1..req} \cup {ReadAtResult(req, "EOF")})
        \cup (IF p.fails THEN {ReadAtResult(n, "read error") : n \in 0..req} ELSE {})

\* ReadAt copies the n bytes it read at off into b = buf[off:]
CopyAt(buf, content, off, n) ==
    [i \in 1..Len(buf) |-> IF i > off /\ i <= off + n THEN content[i] ELSE buf[i]]

\* off += n
Advance(off, n) == off + n

\* buf := make([]byte, p.Len()); off := 0
ReadAllStart ==
    /\ ra.pc = "idle"
    /\ ra' = [ra EXCEPT !.pc = "loop", !.buf = Zeros(Len(pack.content)), !.off = 0]
    /\ UNCHANGED <<pack, capVars, repVars>>

\* one turn of the for loop: n, err := p.ReadAt(buf[off:], int64(off))
ReadAllStep ==
    /\ ra.pc = "loop"
    /\ \E r \in ReadAtOutcomes(pack, Len(ra.buf) - ra.off) :
         LET filled == CopyAt(ra.buf, pack.content, ra.off, r.n)
             turn == 1 - ra.turn
         IN  IF r.err = "EOF"                                   \* break; return buf, nil
             THEN ra' = [ra EXCEPT !.pc = "done", !.buf = filled, !.err = r.err,
                                   !.res = "ok", !.turn = turn]
             ELSE IF r.err # NoErr                              \* return nil, err
             THEN ra' = [ra EXCEPT !.pc = "done", !.buf = <<>>, !.err = r.err,
                                   !.res = "err", !.turn = turn]
             ELSE ra' = [ra EXCEPT !.buf = filled, !.off = Advance(ra.off, r.n),
                                   !.turn = turn]
    /\ UNCHANGED <<pack, capVars, repVars>>

InitReadAll ==
    /\ \E content \in SeqsUpTo(PackBytes, MaxPackLen), atEnd \in {"EOF", NoErr},
          fails \in BOOLEAN : pack = Pack(content, atEnd, fails)
    /\ ra = Call0
    /\ container = Missing
    /\ RepStart
    /\ CapIdle

NextReadAll ==
    \/ ReadAllStart
    \/ ReadAllStep

\* the goroutine that called ReadAll keeps running
SpecReadAll == InitReadAll /\ [][NextReadAll]_vars /\ WF_vars(NextReadAll)

----------------------------------------------------------------------------
(* Replay specification *)

\* contents of a "version" entry
VersionEntries ==
    SeqsUpTo({0, 3, 99}, 4) \cup {WriteReplayHeader(<<>>), <<3, 1, 0, 0>>}

\* a capture file as CaptureCMD.Execute leaves it: the header and one frame
SampleCapture == WriteReplayHeader(<<>>) \o EncodeFrame(Frame(FALSE, <<1>>), 0)

\* the logs of the replay specification
ReplayLog == Log(ReplayBytes, MaxLogFrames, TRUE)

Containers ==
    {WithLog(Zip(TRUE, v, TRUE, TRUE), ReplayLog) : v \in VersionEntries}
        \cup {WithLog(Zip(hv, U32LE(currentReplayVersion), hp, ok), ReplayLog) :
                  hv \in BOOLEAN, hp \in BOOLEAN, ok \in BOOLEAN}
        \cup {Flat(SampleCapture), Flat(<<88, 88, 88, 88>>), Missing}

Init ==
    /\ container \in Containers
    /\ RepStart
    /\ CapIdle
    /\ PackIdle

Next ==
    \/ Open
    \/ LoopRead
    \/ LoopLogin
    \/ LoopSend
    \/ \E c \in CloseCallers : CloseEnter(c)
    \/ \E c \in CloseCallers : CloseCloseCh(c)
    \/ \E c \in CloseCallers : ClosePacketsCh(c)
    \/ ReadPacket
    \/ \E v \in SpawnVariants : DoSpawn(v)
    \/ SpawnCtxDone

Spec == Init /\ [][Next]_vars

\* frames of the log replayed while the connection contract is exercised
MaxContractFrames == 2

\* a sound archive whose log holds StartGame{7}, SetLocalPlayerAsInitialised{7}
\* and one other packet
ContractContainer ==
    WithLog(Zip(TRUE, U32LE(currentReplayVersion), TRUE, TRUE),
            Log({1, 2, 4}, MaxContractFrames, FALSE))

InitContract ==
    /\ container = ContractContainer
    /\ RepStart
    /\ CapIdle
    /\ PackIdle

\* the consumer also calls WritePacket, Authenticated, LocalAddr and RemoteAddr
NextContract ==
    \/ Next
    \/ WritePacket
    \/ Authenticated
    \/ LocalAddr
    \/ RemoteAddr

SpecContract == InitContract /\ [][NextContract]_vars

\* frames of the log replayed through the resource-pack negotiation
MaxNegotiationFrames == 2

\* a sound archive whose log holds StartGame{7}, SetLocalPlayerAsInitialised{7}
\* and {0}, and a resource-pack message the handler returns an error for
NegotiationContainer ==
    WithLog(Zip(TRUE, U32LE(currentReplayVersion), TRUE, TRUE),
            Log({1, 2, 3, 7}, MaxNegotiationFrames, FALSE))

InitNegotiation ==
    /\ container = NegotiationContainer
    /\ RepStart
    /\ CapIdle
    /\ PackIdle

SpecNegotiation == InitNegotiation /\ [][Next]_vars

\* frames of a log with payloads that cannot be decoded
MaxSkipFrames == 3

\* a payload byte no message decodes from
UndecodableByte == 99

\* a sound archive whose log holds StartGame{7}, SetLocalPlayerAsInitialised{7},
\* one other packet and a byte that cannot be decoded
SkipContainer ==
    WithLog(Zip(TRUE, U32LE(currentReplayVersion), TRUE, TRUE),
            Log({1, 2, 4, UndecodableByte}, MaxSkipFrames, FALSE))

InitSkip ==
    /\ container = SkipContainer
    /\ RepStart
    /\ CapIdle
    /\ PackIdle

SpecSkip == InitSkip /\ [][Next]_vars

\* frames of the log replayed while the game data is read
MaxGameDataFrames == 2

\* a sound archive whose log holds StartGame{7}, StartGame{9} and
\* SetLocalPlayerAsInitialised{7}
GameDataContainer ==
    WithLog(Zip(TRUE, U32LE(currentReplayVersion), TRUE, TRUE),
            Log({1, 2, 8}, MaxGameDataFrames, FALSE))

InitGameData ==
    /\ container = GameDataContainer
    /\ RepStart
    /\ CapIdle
    /\ PackIdle

\* the replay with a consumer that reads packets, waits for the spawn in
\* DoSpawn and calls GameData and SetGameData; the session is closed by the loop
NextGameData ==
    \/ Open
    \/ LoopRead
    \/ LoopLogin
    \/ LoopSend
    \/ CloseEnter("loop")
    \/ CloseCloseCh("loop")
    \/ ClosePacketsCh("loop")
    \/ ReadPacket
    \/ DoSpawn("DoSpawn")
    \/ GameData
    \/ \E data \in ConsumerIds : SetGameDataCall(data)

SpecGameData == InitGameData /\ [][NextGameData]_vars

\* frames of the log replayed under fair scheduling
MaxLiveFrames == 2

\* a sound archive whose log holds StartGame{7} and
\* SetLocalPlayerAsInitialised{0}, which completes login before a StartGame and
\* fails it after one, and damaged frames
LiveContainer ==
    WithLog(Zip(TRUE, U32LE(currentReplayVersion), TRUE, TRUE),
            Log({1, 3}, MaxLiveFrames, TRUE))

InitLive ==
    /\ container = LiveContainer
    /\ RepStart
    /\ CapIdle
    /\ PackIdle

\* the goroutine of loop() keeps running while it is not blocked: it reads,
\* handles login messages and runs its deferred Close; a goroutine inside
\* Close runs it to its end.  Sending on r.packets waits for the consumer, and
\* the consumer is free to make no call at all.
Fairness ==
    /\ WF_vars(LoopRead)
    /\ WF_vars(LoopLogin)
    /\ WF_vars(CloseEnter("loop"))
    /\ \A c \in CloseCallers : WF_vars(CloseCloseCh(c)) /\ WF_vars(ClosePacketsCh(c))

SpecLive == InitLive /\ [][Next]_vars /\ Fairness

----------------------------------------------------------------------------
(* Capture specifications *)

NotReopened == [tried |-> FALSE, err |-> NoErr]

\* the finished capture file is handed to the replay open
Reopen ==
    /\ ProducersDone
    /\ ~reopened.tried
    /\ reopened' = [tried |-> TRUE, err |-> createReplayConnector(Flat(f)).err]
    /\ UNCHANGED <<f, dumpLock, ppc, todo, nsent, faulty, rpos, got, rstate, rerr>>

\* the replay side at rest
RepIdle == container = Missing /\ RepStart

\* frames of the codec specification: either direction, every payload up to MaxPayload
CodecFrames == {Frame(d, pl) : d \in BOOLEAN, pl \in SeqsUpTo(PayloadBytes, MaxPayload)}

\* frames the concurrent producers write
ConcFrames == {Frame(TRUE, <<>>), Frame(FALSE, <<170>>)}

\* CaptureCMD.Execute: the file is created and the header written before any
\* PacketFunc runs
CapStart ==
    /\ f = WriteReplayHeader(<<>>)
    /\ dumpLock = NoOwner
    /\ ppc = [p \in Producers |-> "idle"]
    /\ nsent = [p \in Producers |-> 0]
    /\ faulty = 0
    /\ rpos = 0
    /\ got = <<>>
    /\ rstate = "wait"
    /\ rerr = NoErr
    /\ reopened = NotReopened

\* one producer writes any sequence of up to MaxFrames frames
InitCodec ==
    /\ CapStart
    /\ \E s \in SeqsUpTo(CodecFrames, MaxFrames) :
           todo = [p \in Producers |-> IF p = 1 THEN s ELSE <<>>]
    /\ RepIdle
    /\ PackIdle

\* every producer writes FramesPer frames
InitCapture ==
    /\ CapStart
    /\ todo \in [Producers -> {s \in SeqsUpTo(ConcFrames, FramesPer) : Len(s) = FramesPer}]
    /\ RepIdle
    /\ PackIdle

NextCapture ==
    \/ \E p \in Producers : DumpLock(p)
    \/ \E p \in Producers : DumpMagic(p)
    \/ \E p \in Producers : DumpSize(p)
    \/ \E p \in Producers : DumpDir(p)
    \/ \E p \in Producers : DumpTime(p)
    \/ \E p \in Producers : DumpPayload(p)
    \/ \E p \in Producers : DumpMagic2(p)
    \/ \E p \in Producers : DumpUnlock(p)
    \/ ReadBack /\ UNCHANGED <<repVars, packVars>>
    \/ Reopen /\ UNCHANGED <<repVars, packVars>>

SpecCodec == InitCodec /\ [][NextCapture]_vars

SpecCapture == InitCapture /\ [][NextCapture]_vars

\* bytes a damaged position of a frame log may hold
DamageBytes == {0, 1, 170, 187}

\* what may become of the bytes e of a frame: cut off at any point (whole,
\* and cut to nothing, included), or one byte replaced
Truncations(e) == {SubSeq(e, 1, k) : k \in 0..Len(e)}
Corruptions(e) == {[e EXCEPT ![i] = b] : i \in 1..Len(e), b \in DamageBytes}

\* the frame log dumpPacket writes for the frames, all at time t
RECURSIVE EncodeFrames(_, _)
EncodeFrames(frames, t) ==
    IF frames = <<>> THEN <<>>
    ELSE EncodeFrame(Head(frames), t) \o EncodeFrames(Tail(frames), t)

\* a capture (the frames written, all at time t) and what its frame log holds
\* after the damage
DamagedCapture(frames, t, log) == [frames |-> frames, t |-> t, log |-> log]

\* captures whose last or last but one frame is damaged
DamagedCaptures ==
    LET first == {<<>>, <<Frame(TRUE, <<187>>)>>}
        last == {<<>>, <<Frame(FALSE, <<170>>)>>}
    IN  UNION {{DamagedCapture(a \o <<fr>>, 258, EncodeFrames(a, 258) \o d) :
                      d \in Truncations(EncodeFrame(fr, 258))} :
                   a \in first, fr \in CodecFrames}
          \cup UNION {{DamagedCapture(a \o <<fr>> \o z, 258,
                                     EncodeFrames(a, 258) \o d \o EncodeFrames(z, 258)) :
                          d \in Corruptions(EncodeFrame(fr, 258))} :
                       a \in first, fr \in CodecFrames, z \in last}

\* the capture a file of SpecDamaged was written from: its frames are those of
\* producer 1, whose log was damaged after it was written
WrittenLog == EncodeFrames(todo[1], 258)

\* a capture file whose frame log was damaged after it was written
InitDamaged ==
    /\ \E c \in DamagedCaptures :
          /\ f = WriteReplayHeader(<<>>) \o c.log
          /\ todo = [p \in Producers |-> IF p = 1 THEN c.frames ELSE <<>>]
          /\ nsent = [p \in Producers |-> IF p = 1 THEN Len(c.frames) ELSE 0]
    /\ dumpLock = NoOwner
    /\ ppc = [p \in Producers |-> "idle"]
    /\ faulty = 0
    /\ rpos = 0
    /\ got = <<>>
    /\ rstate = "wait"
    /\ rerr = NoErr
    /\ reopened = NotReopened
    /\ RepIdle
    /\ PackIdle

\* the damaged log is read frame by frame
NextDamaged == ReadBack /\ UNCHANGED <<repVars, packVars>>

SpecDamaged == InitDamaged /\ [][NextDamaged]_vars

\* the packet forwarded over a failing stream
FaultyFrames == {Frame(FALSE, <<170, 187>>)}

\* the capture file is a stream on which up to MaxShortWrites of the writes of
\* dumpPacket write less than they were given; one producer forwards the
\* packets of calls
FaultyStart(calls) ==
    /\ f = WriteReplayHeader(<<>>)
    /\ dumpLock = NoOwner
    /\ ppc = [p \in Producers |-> "idle"]
    /\ todo = [p \in Producers |-> IF p = 1 THEN calls ELSE <<>>]
    /\ nsent = [p \in Producers |-> 0]
    /\ faulty = MaxShortWrites
    /\ rpos = 0
    /\ got = <<>>
    /\ rstate = "wait"
    /\ rerr = NoErr
    /\ reopened = NotReopened
    /\ RepIdle
    /\ PackIdle

\* one statement of the dumpPacket call of producer p
DumpStep(p) ==
    \/ DumpLock(p)
    \/ DumpMagic(p)
    \/ DumpSize(p)
    \/ DumpDir(p)
    \/ DumpTime(p)
    \/ DumpPayload(p)
    \/ DumpMagic2(p)
    \/ DumpUnlock(p)

NextFaulty == \E p \in Producers : DumpStep(p)

\* up to MaxFrames packets are forwarded
InitFaulty == \E s \in SeqsUpTo(FaultyFrames, MaxFrames) : FaultyStart(s)

SpecFaulty == InitFaulty /\ [][NextFaulty]_vars

\* a packet is forwarded, and another one after it
InitFaultyLive == \E fr \in FaultyFrames : FaultyStart(<<fr, fr>>)

\* every goroutine that forwards packets keeps running, and a goroutine
\* waiting for dumpLock gets it once it is free often enough
SpecFaultyLive ==
    InitFaultyLive /\ [][NextFaulty]_vars /\ \A p \in Producers : SF_vars(DumpStep(p))

----------------------------------------------------------------------------
(* Claims about the capture encoder *)

\* whether s interleaves the sequences rest[p], each in its own order
RECURSIVE IsMerge(_, _)
IsMerge(s, rest) ==
    IF s = <<>> THEN \A p \in DOMAIN rest : rest[p] = <<>>
    ELSE \E p \in DOMAIN rest :
            /\ rest[p] # <<>>
            /\ Head(rest[p]) = Head(s)
            /\ IsMerge(Tail(s), [rest EXCEPT ![p] = Tail(@)])

RECURSIVE EncodedLen(_)
EncodedLen(frames) ==
    IF frames = <<>> THEN 0
    ELSE Len(EncodeFrame(Head(frames), 0)) + EncodedLen(Tail(frames))

\* C1: the frames read back by successive readPacket calls are, at every point of
\* the read-back, a prefix of the (direction, payload) sequence that was written
\* with dumpPacket, and at the end of the log they are exactly that sequence:
\* same order, same direction, same payload bytes, empty payloads included.
RoundTrip ==
    ProducersDone =>
        /\ Len(got) <= Len(todo[1])
        /\ got = SubSeq(todo[1], 1, Len(got))
        /\ rstate = "end" => got = todo[1]

\* a log of MaxFrames frames, one with an empty payload and one with a payload
\* holding a magic byte, has been written and read back to its end
RoundTripWitness ==
    /\ rstate = "end"
    /\ Len(got) = MaxFrames
    /\ \E i \in 1..Len(got) : got[i].payload = <<>>
    /\ \E i \in 1..Len(got) : Len(got[i].payload) = MaxPayload /\ got[i].payload[1] = 170
    /\ \E i \in 1..Len(got) : got[i].toServer

\* C7: whenever no producer is inside dumpPacket, the stream decodes into whole
\* frames only (every byte after the header belongs to a decoded frame), these
\* frames interleave the calls the producers have made with each producer's
\* frames in its program order, and once all N producers have made their M
\* calls there are exactly N x M of them.
CaptureIntegrity ==
    dumpLock = NoOwner =>
        LET frames == ReadAll(FrameLog(f), 0, currentReplayVersion)
        IN  /\ EncodedLen(frames) = Len(FrameLog(f))
            /\ IsMerge(frames, [p \in Producers |-> SubSeq(todo[p], 1, nsent[p])])
            /\ ProducersDone => Len(frames) = Cardinality(Producers) * FramesPer

\* both producers have written all their frames, the two of a producer differ,
\* and the second producer's first frame got in before the first producer's last
CaptureIntegrityWitness ==
    /\ ProducersDone
    /\ \A p \in Producers : nsent[p] = FramesPer /\ todo[p][1] # todo[p][2]
    /\ todo[1] # todo[2]
    /\ LET frames == ReadAll(FrameLog(f), 0, currentReplayVersion)
       IN  /\ Len(frames) = Cardinality(Producers) * FramesPer
           /\ frames[1] = todo[1][1]
           /\ frames[2] = todo[2][1]
           /\ frames[3] = todo[2][2]

\* whether the bytes of s at pos are a whole frame that carries fr: the leading
\* magic, the length of the payload, the direction, eight bytes of time, the
\* payload and the trailing magic
FramedAt(s, pos, fr) ==
    LET n == Len(fr.payload)
    IN  /\ Len(s) - pos >= 21 + n
        /\ SubSeq(s, pos + 1, pos + 4) = Magic1
        /\ SubSeq(s, pos + 5, pos + 8) = U32LE(n)
        /\ (s[pos + 9] # 0) = fr.toServer
        /\ SubSeq(s, pos + 18, pos + 17 + n) = fr.payload
        /\ SubSeq(s, pos + 18 + n, pos + 21 + n) = Magic2

\* whether the bytes of s at pos are a whole frame, whatever it carries
WholeFrameAt(s, pos) ==
    /\ Len(s) - pos >= 21
    /\ SubSeq(s, pos + 1, pos + 4) = Magic1
    /\ LET n == DecodeU32(SubSeq(s, pos + 5, pos + 8))
       IN  /\ Len(s) - pos >= 21 + n
           /\ SubSeq(s, pos + 18 + n, pos + 21 + n) = Magic2

\* whether every frame of frames is framed in s, one after the other from pos on
RECURSIVE FramedFrom(_, _, _)
FramedFrom(s, pos, frames) ==
    IF frames = <<>> THEN TRUE
    ELSE /\ FramedAt(s, pos, Head(frames))
         /\ FramedFrom(s, pos + 21 + Len(Head(frames).payload), Tail(frames))

\* C12 as stated: readPacket returns only frames that were written, and when
\* the log was cut or a byte of it replaced inside a frame, the read-back ends
\* with an error.
DamageDetected ==
    LET log == FrameLog(f)
    IN  /\ Len(got) <= Len(todo[1]) /\ got = SubSeq(todo[1], 1, Len(got))
        /\ rstate = "end" /\ log # WrittenLog /\ Len(log) # EncodedLen(got)
              => rerr # NoErr

\* C12: readPacket returns a payload only for a whole frame of the log (leading
\* magic, the declared number of payload bytes, trailing magic), and returns it
\* as it stands in the log; the read-back ends without an error only where the
\* log ends at a frame boundary; where it ends with bytes left, these bytes are
\* not a whole frame (the log ends inside one, or a magic or the length is
\* damaged) and readPacket has returned an error and no payload.  A log that
\* was only cut yields frames that were written, and an error unless the cut
\* is at a frame boundary.
TruncationDetected ==
    LET log == FrameLog(f)
        at == EncodedLen(got)
    IN  /\ FramedFrom(log, 0, got)
        /\ rstate = "reading" => rerr = NoErr
        /\ rstate = "end" =>
              /\ rerr = NoErr <=> Len(log) = at
              /\ ~WholeFrameAt(log, at)
        /\ log = SubSeq(WrittenLog, 1, Len(log)) =>
              /\ Len(got) <= Len(todo[1]) /\ got = SubSeq(todo[1], 1, Len(got))
              /\ rstate = "end" /\ Len(log) # EncodedLen(SubSeq(todo[1], 1, Len(got)))
                    => rerr # NoErr

\* after one whole frame, a frame cut inside its payload ended the read-back
\* with an error
TruncationDetectedWitness ==
    /\ rstate = "end"
    /\ Len(got) = 1
    /\ rerr = "unexpected EOF"
    /\ Len(FrameLog(f)) - EncodedLen(got) = 17 + MaxPayload - 1

\* C10: a file written by the capture writer (header, then dumpPacket frames) is
\* accepted by createReplayConnector.
CaptureReopens == reopened.tried => reopened.err = NoErr

\* C14: the payload statement of dumpPacket (the payload write and, after a
\* short one, the write of the zero padding) appends exactly the declared
\* payload length, so that the trailing magic begins that many bytes after
\* the end of the timestamp field.
PaddingKeepsOffset ==
    [][\A p \in Producers :
          ppc[p] = "payload" /\ ppc'[p] = "magic2"
              => Len(f') = Len(f) + Len(Cur(p).payload)]_vars

\* C15: once a write of dumpPacket has failed, every dumpPacket call still
\* returns to PacketFunc with the mutex released, and every packet that is
\* forwarded afterwards is still handed to dumpPacket, which returns as well.
BestEffortCapture == faulty < MaxShortWrites ~> ProducersDone

\* two writes came out short, the log is shorter than the frames written to
\* it, and every call, the one after the failures included, has returned
BestEffortCaptureWitness ==
    /\ faulty = 0
    /\ ProducersDone
    /\ dumpLock = NoOwner
    /\ nsent[1] = 2
    /\ Len(FrameLog(f)) < EncodedLen(todo[1])

----------------------------------------------------------------------------
(* Claims about the replay connection *)

\* the initialization-confirmation handled carried another id than the one declared
Mismatch == hist.initSeen /\ hist.initId # hist.declId

\* C2: the spawn signal fires at most once, only after a start-of-game message
\* was handled and a later initialization-confirmation carried the id it
\* declared, and never once a mismatching id was seen.
SpawnExactlyOnce ==
    /\ hist.spawns <= 1
    /\ spawnCh => hist.startGame /\ hist.initSeen /\ hist.initId = hist.declId
    /\ Mismatch => ~spawnCh

\* C3: after an initialization-confirmation whose id differs from the declared
\* one the loop has left its for loop for the deferred Close and handles no
\* further message, the spawn signal never fires, no spawn-wait has returned
\* success, no ReadPacket returned a packet, and once the loop is done the
\* close and packets channels are closed with no read or spawn-wait left
\* pending.
LoginMismatchFatal ==
    Mismatch =>
        /\ lpc \in {"defer", "done"}
        /\ fault = "none"
        /\ ~spawnCh
        /\ swLast.res # "ok"
        /\ ndelivered = 0
        /\ rdLast.res # "ok"
        /\ lpc = "done" =>
              /\ closeCh = 1 /\ packetsCh = 1
              /\ rd = "idle" /\ sw.pc = "idle"

\* start-of-game declared 7, the confirmation carried 0: the loop is done, a
\* spawn-wait and a ReadPacket have returned their errors
LoginMismatchFatalWitness ==
    /\ Mismatch
    /\ hist.startGame /\ hist.declId = 7 /\ hist.initId = 0
    /\ lpc = "done"
    /\ swLast.res = "err"
    /\ rdLast.res = "closed"

\* C4: every packet a ReadPacket returns is the oldest post-login message, in
\* frame order then message order, not yet returned; nothing is returned before
\* login completes; and the loop neither reads a further frame nor reaches the
\* end of the log while a post-login message it decoded is still to be
\* returned.
StrictCaptureOrder ==
    /\ hist.inOrder
    /\ ~gameStarted => ndelivered = 0 /\ due = <<>>
    /\ lpc = "read" => due = <<>>
    /\ hist.end # "none" => due = <<>>

\* after a login by StartGame and its confirmation, three packets of two frames
\* have been returned, the last one different from the one that is due next
StrictCaptureOrderWitness ==
    /\ hist.startGame
    /\ hist.inOrder
    /\ nread = MaxLogFrames
    /\ ndelivered = 3
    /\ rdLast.res = "ok"
    /\ due # <<>>
    /\ Head(due) # rdLast.pk

\* C11: a spawn-wait is left pending only while neither r.spawn nor r.close is
\* closed, and a spawn-wait that returned has one result, success or error:
\* success only when the spawn signal had fired, error only when the
\* connection was closed or, for DoSpawnContext and DoSpawnTimeout, the context
\* ended (the variant of the wait that returned last is the one sw holds while
\* idle); DoSpawn itself never fails while the connection is open, and a wait
\* never succeeds on a connection closed before the spawn signal.
SpawnWaitResolves ==
    /\ sw.pc = "pending" => ~spawnCh /\ closeCh = 0
    /\ swLast.res \in {"none", "ok", "err"}
    /\ swLast.res = "ok" => swLast.spawned
    /\ sw.pc = "idle" /\ swLast.res = "err" /\ ~swLast.closed => sw.variant # "DoSpawn"
    /\ swLast.closed /\ ~swLast.spawned => swLast.res = "err"

\* a DoSpawnTimeout has returned its error on an open connection, the spawn
\* signal not fired: its context ended
SpawnWaitResolvesWitness ==
    /\ sw = [pc |-> "idle", variant |-> "DoSpawnTimeout"]
    /\ swLast = SpawnOutcome("err", FALSE, FALSE)
    /\ closeCh = 0 /\ ~spawnCh

\* the loop has come to the end of the stream or to a read error
ReadEnded == hist.end \in {"eof", "read"}

\* C13: once readPacket has reported the end of the stream or a read error, the
\* loop has left its for loop for the deferred Close without a fault; the end of
\* the stream is reported only with every byte read; from then on the loop
\* reads nothing more from packets.bin (no retry, no further frame); and when
\* the loop is done the session is closed: r.close and r.packets are closed.
LoopTermination ==
    /\ [](ReadEnded =>
             /\ lpc \in {"defer", "done"}
             /\ fault = "none"
             /\ hist.end = "eof" => packetF = <<>>
             /\ lpc = "done" => closeCh = 1 /\ packetsCh = 1 /\ once = "done")
    /\ [][ReadEnded => /\ nread' = nread
                       /\ packetF' = packetF
                       /\ hist'.end = hist.end]_vars

\* after a sound frame, a frame with a wrong trailing magic ended the loop: the
\* loop is done, the session closed, and the sound frame behind the damaged one
\* is still unread
LoopTerminationWitness ==
    /\ hist.end = "read"
    /\ lpc = "done"
    /\ closeCh = 1 /\ packetsCh = 1
    /\ nread >= 1
    /\ packetF = SoundChunk

\* C16: once the replay is torn down (the loop has returned and run its
\* deferred Close, or a Close of the consumer has returned), the container
\* file and the frame log createReplayConnector opened are closed.
NoResourceLeak ==
    lpc = "done" \/ once = "done" => "r.f" \notin files /\ "packets.bin" \notin files

\* C17: WritePacket returns nil, Authenticated true, LocalAddr 1.1.1.1 and
\* RemoteAddr 2.2.2.2 in every state of the connection, and none of these
\* calls changes the read position of the log, the messages still to hand
\* over, the spawn signal, the game data, the channels, the pending calls or
\* where the loop stands.
ReplayReadOnly ==
    /\ [](/\ cc.op = "WritePacket" => cc.res = NoErr
          /\ cc.op = "Authenticated" => cc.res = "true"
          /\ cc.op = "LocalAddr" => cc.res = "1.1.1.1"
          /\ cc.op = "RemoteAddr" => cc.res = "2.2.2.2")
    /\ [][cc' # cc => UNCHANGED <<packetF, nread, pks, due, ndelivered, spawnCh,
                                  gameData, gameStarted, closeCh, packetsCh, once,
                                  lpc, rd, sw, files>>]_vars

\* a WritePacket has returned nil after the spawn signal fired and the
\* connection was closed
ReplayReadOnlyWitness ==
    /\ cc = Call("WritePacket", NoErr)
    /\ spawnCh
    /\ closeCh = 1 /\ packetsCh = 1 /\ once = "done"

\* C18: once handleLoginSequence has returned an error (from the resource-pack
\* handler or from the id check) the loop has left its for loop for the
\* deferred Close: it reads no further frame, handles none of the messages
\* left in the frame, does not change the game data, the spawn signal stays
\* unfired, no packet is handed over, and when the loop is done the channels
\* are closed.
NegotiationErrorFatal ==
    /\ [](hist.end = "login" =>
              /\ lpc \in {"defer", "done"}
              /\ ~spawnCh /\ ~gameStarted
              /\ ndelivered = 0
              /\ swLast.res # "ok"
              /\ lpc = "done" => closeCh = 1 /\ packetsCh = 1 /\ once = "done")
    /\ [][hist.end = "login" =>
              /\ nread' = nread /\ packetF' = packetF /\ pks' = pks
              /\ gameData' = gameData /\ hist' = hist]_vars

\* after StartGame{7} the resource-pack handler returned an error; the
\* matching confirmation behind it in the frame was not handled, and the loop
\* is done
NegotiationErrorFatalWitness ==
    /\ hist.end = "login" /\ ~hist.initSeen /\ hist.startGame
    /\ lpc = "done"
    /\ pks = <<Msg("ResourcePackErr", 0), Msg("SetLocalPlayerAsInitialised", 7)>>
    /\ gameData = 7

\* C19: while login is not complete no ReadPacket has returned a packet, and
\* no step taken before login completes hands one over; a packet is returned
\* only after a confirmation carrying the id of the game data was handled;
\* at the step that completes login the messages to hand over are exactly
\* those behind the confirmation in its frame, and the first packet returned
\* is the oldest of the messages decoded behind the confirmation.
LoginConsumed ==
    /\ [](/\ ~gameStarted => ndelivered = 0 /\ rdLast.res # "ok"
          /\ ndelivered > 0 =>
                /\ spawnCh
                /\ hist.initSeen /\ hist.initId = hist.declId)
    /\ [][/\ ~gameStarted => ndelivered' = 0 /\ rdLast'.res # "ok"
          /\ ~gameStarted /\ gameStarted' =>
                /\ Head(pks).kind = "SetLocalPlayerAsInitialised"
                /\ due' = Tail(pks)
          /\ ndelivered = 0 /\ ndelivered' = 1 =>
                /\ due # <<>> /\ rdLast'.res = "ok" /\ rdLast'.pk = Head(due)]_vars

\* the frame [StartGame{7}, SetLocalPlayerAsInitialised{7}] and a frame of a
\* StartGame and another packet were read: the StartGame of the second frame
\* was the one packet returned, the other packet is due
LoginConsumedWitness ==
    /\ nread = 2 /\ hist.startGame /\ hist.initSeen
    /\ ndelivered = 1
    /\ rdLast = ReadOutcome("ok", Msg("StartGame", 7), FALSE)
    /\ due = <<Msg("Other", 1)>>

\* C20: a pending DoSpawn eventually returns.
SpawnWaitReturns ==
    sw.pc = "pending" /\ sw.variant = "DoSpawn" ~> sw.pc = "idle"

\* a DoSpawn is pending when the loop, having read the whole log without
\* completing login, is about to run its deferred Close
SpawnWaitReturnsWitness ==
    /\ sw = [pc |-> "pending", variant |-> "DoSpawn"]
    /\ hist.end = "eof" /\ lpc = "defer"
    /\ nread = MaxLiveFrames
    /\ ccalls = 0 /\ once = "fresh"

\* C21: a spawn-wait called when the spawn signal had already fired returns
\* success, whether or not the connection was closed by then.
SpawnDeterministic == swLast.spawned => swLast.res = "ok"

\* C22 as stated: once the spawn signal has fired after a StartGame,
\* r.gameData is the data of the last StartGame handled before the matching
\* confirmation.
GameDataSnapshotKept == spawnCh /\ hist.startGame => gameData = hist.lastStart

\* C22: while the consumer has not called SetGameData, once the spawn signal
\* has fired after a StartGame r.gameData is the data of the last StartGame
\* handled before the matching confirmation and a GameData call returns it;
\* after the spawn signal no step of the loop changes r.gameData, whatever it
\* reads: only a SetGameData call of the consumer does.
GameDataFixed ==
    /\ [](spawnCh /\ hist.startGame /\ ~hist.userSet => gameData = hist.lastStart)
    /\ [][/\ spawnCh => hist'.lastStart = hist.lastStart
          /\ spawnCh /\ gameData' # gameData =>
                /\ hist'.userSet /\ cc'.op = "SetGameData" /\ gameData' = cc'.res
                /\ UNCHANGED <<lpc, pks, nread>>
          /\ (/\ cc'.op = "GameData"
              /\ cc.op # "GameData" \/ cc.res # cc'.res
              /\ spawnCh /\ hist.startGame /\ ~hist.userSet)
                 => cc'.res = hist.lastStart]_vars

\* StartGame{9}, StartGame{7} and the confirmation for 7 were handled, a
\* StartGame{9} behind them was handed to the consumer, a spawn-wait returned
\* success and GameData returned the data of StartGame{7}
GameDataFixedWitness ==
    /\ swLast.res = "ok"
    /\ hist.lastStart = 7
    /\ ndelivered >= 1 /\ rdLast = ReadOutcome("ok", Msg("StartGame", 9), FALSE)
    /\ nread = 2
    /\ cc.op = "GameData" /\ cc.res = 7
    /\ ~hist.userSet

\* C23: a frame whose payload fails to decode is counted as read and nothing
\* else happens: the loop stands at its next read, no message of the frame is
\* handled or due to the consumer, and game data, spawn signal and channels
\* are as before; the packets returned stay the oldest ones due; and the loop
\* returns only at the end of the log, on a read error, on a ParseData error
\* or on a login error.
DecodeFailureSkipped ==
    /\ [](/\ hist.end \in {"none", "eof", "read", "parse", "login"}
          /\ hist.inOrder)
    /\ [][hist'.skipped # hist.skipped =>
              /\ lpc = "read" /\ lpc' = "read"
              /\ nread' = nread + 1
              /\ hist'.end = "none"
              /\ UNCHANGED <<pks, due, ndelivered, gameStarted, gameData, spawnCh,
                             closeCh, packetsCh, once, rd, sw>>]_vars

\* of three frames the first completed login, the second could not be
\* decoded, and the packet of the third was returned to the consumer
DecodeFailureSkippedWitness ==
    /\ nread = 3 /\ hist.skipped = 1
    /\ hist.startGame /\ spawnCh
    /\ ndelivered = 1
    /\ rdLast = ReadOutcome("ok", Msg("Other", 1), FALSE)
    /\ closeCh = 0

\* C5: Close never makes the program fault, whatever the loop is doing.
CloseNeverFaults == fault = "none"

\* C6: the close and packets channels are closed at most once, both are closed
\* once a Close has returned, no Close panics on a closed channel, a ReadPacket
\* issued after a Close returned reports the connection closed, and none stays
\* pending once r.close is closed.
IdempotentClose ==
    /\ fault # "close of closed channel"
    /\ closeCh <= 1 /\ packetsCh <= 1
    /\ once = "done" => closeCh = 1 /\ packetsCh = 1
    /\ ccalls > 0 \/ lpc = "done" => once = "done"
    /\ rdLast.afterClose => rdLast.res = "closed"
    /\ closeCh > 0 => rd = "idle"

\* the consumer called Close twice and the loop ran its deferred Close; a
\* ReadPacket issued afterwards has returned
IdempotentCloseWitness ==
    /\ ccalls = MaxCloses
    /\ lpc = "done"
    /\ fault = "none"
    /\ rdLast.afterClose

\* the header record of a container: the flat file itself, the "version" entry
\* of an archive
HeaderRecord(c) == IF c.kind = "zip" THEN c.version ELSE c.bytes

\* the first k elements of s, all of s when it is shorter
FirstBytes(s, k) == SubSeq(s, 1, IF Len(s) < k THEN Len(s) ELSE k)

HeaderMagic(c) == FirstBytes(HeaderRecord(c), 4)

\* C8: a container whose version entry does not hold exactly version 3 is
\* rejected when it is opened: an error comes back, no connection is set up
\* and the decode loop is never started.
VersionGate ==
    (/\ conn # "unopened"
     /\ container.kind = "zip" /\ container.hasVersion
     /\ FirstBytes(container.version, 4) # <<3, 0, 0, 0>>)
        => /\ conn = "rejected"
           /\ openErr # NoErr
           /\ lpc = "off"
           /\ nread = 0 /\ pks = <<>>

\* a container declaring version 99 was turned away as "wrong version"
VersionGateWitness ==
    /\ conn = "rejected"
    /\ openErr = "wrong version"
    /\ container.version = <<99, 0, 0, 0>>

\* C9: a container whose header magic is not "BTCP" is rejected when opened.
HeaderValidation ==
    conn # "unopened" /\ HeaderMagic(container) # replayMagic => conn = "rejected"

====
